---- MODULE Spec2Model ----
(***************************************************************************)
(* Model of the course pacing simulator and constant-power optimizer of    *)
(* src/app/optimization.py together with the speed solver of               *)
(* src/app/cycling_physics.py, and of the course conversion of             *)
(* src/app/course.py and create_course_segments_from_course, and of the    *)
(* WTankCalculator and the Rider's drag area of src/app/rider.py.          *)
(*                                                                         *)
(* The program computes in floating point; the model uses fixed point:     *)
(*   power            deciwatt      (dW,  0.1 W)                           *)
(*   speed, wind      millimetre/s  (mm/s)                                 *)
(*   distance         metre                                                *)
(*   gradient         thousandths   (0.06 is 60)                           *)
(*   time             centisecond   (cs,  0.01 s)                          *)
(*   W', energy       millijoule    (mJ = dW * cs)                         *)
(*   force            centinewton   (cN)                                   *)
(*   objective value  centisecond   (100 * the program's value)            *)
(*   rider height     centimetre                                            *)
(*   CdA              thousandths of a square metre (0.35 is 350)           *)
(***************************************************************************)
EXTENDS Integers, Sequences, FiniteSets, TLC

VARIABLES
    call,               \* which entry point this run exercises
    critical_power,     \* CourseOptimizer.critical_power (dW)
    w_prime,            \* CourseOptimizer.w_prime (mJ)
    course_segments,    \* the course: a sequence of segment rows
    power,              \* simulate_course_time: the power argument (dW)
    sim_pc,             \* simulate_course_time: position
    idx,                \* simulate_course_time: index of the next segment
    total_time,         \* simulate_course_time: local total_time (cs)
    w_remaining,        \* simulate_course_time: local w_remaining (mJ)
    total_energy_used,  \* simulate_course_time: local total_energy_used (mJ)
    results,            \* simulate_course_time: local results list
    sim_ret,            \* simulate_course_time: the returned tuple
    opt_pc,             \* optimize_constant_power: position
    start_idx,          \* optimize_constant_power: index into start_powers
    best_result,        \* optimize_constant_power: best_result
    grid_i,             \* optimize_constant_power: index into test_powers
    best_power,         \* optimize_constant_power: best_power of the grid
    best_score,         \* optimize_constant_power: best_score of the grid
    optimal_power,      \* optimize_constant_power: optimal_power (dW)
    path,               \* optimize_constant_power: the branch that chose it
    retried,            \* optimize_constant_power: lines 235-241 were run
    opt_sim,            \* optimize_constant_power: df_results, optimal_time,
                        \*   w_remaining, total_energy of the last simulation
    opt_ret,            \* optimize_constant_power: the returned triple
    course_df,          \* the DataFrame of points handed to Course(df)
    course,             \* the Course object, None before its construction
    optimization_segments,
                        \* create_course_segments_from_course: its outcome
    other,              \* the power and the locals of a second call of
                        \*   simulate_course_time that runs concurrently
                        \*   on the same optimizer, None without one
    wt_args,            \* the arguments WTankCalculator was built with
    wt,                 \* the attributes of the WTankCalculator object
    wt_out,             \* the outcomes of its calculate_w_tank calls
    rider,              \* the attributes of the Rider object that the
                        \*   drag estimate reads and writes, None without one
    obj                 \* two simulation outcomes handed to the objective
                        \*   of lines 135-166 and the values it returns

simVars == <<power, sim_pc, idx, total_time, w_remaining, total_energy_used,
             results, sim_ret>>

optVars == <<opt_pc, start_idx, best_result, grid_i, best_power, best_score,
             optimal_power, path, retried, opt_sim, opt_ret>>

inputs == <<call, critical_power, w_prime, course_segments>>

courseVars == <<course_df, course, optimization_segments>>

riderVars == <<wt_args, wt, wt_out>>

auxVars == <<courseVars, other, riderVars, rider, obj>>

vars == <<inputs, simVars, optVars, auxVars>>

(***************************************************************************)
(* Bounds of the model and distinguished values.                           *)
(***************************************************************************)
MaxSegs == 2

\* the longest DataFrame of points a Course is built from
MaxPoints == 4

\* the largest n of Course.equal_segmentation(n)
MaxBins == 2

\* the most calls of calculate_w_tank on one WTankCalculator
MaxCalls == 2

\* float('inf'): larger than every finite time or objective of the model
Infinity == 2000000000

None == [none |-> TRUE]

Max(a, b) == IF a >= b THEN a ELSE b
Min(a, b) == IF a <= b THEN a ELSE b
Abs(a) == IF a >= 0 THEN a ELSE 0 - a

(***************************************************************************)
(* calculate_speed_and_plot: the steady-state speed for a power.           *)
(***************************************************************************)
\* integer square root by bisection: the r with r*r <= n < (r+1)*(r+1)
RECURSIVE SqrtBetween(_, _, _)
SqrtBetween(n, lo, hi) ==
    IF hi - lo <= 1 THEN lo
    ELSE LET mid == (lo + hi) \div 2
         IN  IF mid * mid <= n THEN SqrtBetween(n, mid, hi)
             ELSE SqrtBetween(n, lo, mid)

ISqrt(n) == SqrtBetween(n, 0, 46341)

\* 10000 * sqrt(1 + gradient^2), i.e. 10000 / cos(arctan(gradient))
Hypot(gradient) ==
    IF Abs(gradient) <= 4000
    THEN ISqrt((1000000 + gradient * gradient) * 100)
    ELSE ISqrt(1000000 + gradient * gradient) * 10

\* floor(10 * x / d) without forming 10 * x
MulDiv10(x, d) == (x \div d) * 10 + ((x % d) * 10) \div d

\* the defaults of rho (g/m^3) and drivetrain_efficiency (hundredths)
StandardDensity == 1225
DrivetrainEfficiency == 95

\* the bracketed force of power_equation at speed v (cN) for the air density
\* rho, with the defaults CdA = 0.3 (0.5 * CdA = 3/20), m * g = 735.75 N,
\* Crr = 0.005; h is Hypot(gradient)
Force(v, rho, gradient, v_wind, h) ==
    LET dv == Abs(v - v_wind)
    IN  (((dv * rho * 3) \div 5000) * dv) \div 40000
        + MulDiv10(73575 * gradient, h)
        + 3678750 \div h

\* the sign, in {-1, 0, 1}, of F * v - X for a speed v > 0
Sign(F, X, v) ==
    IF F > X \div v THEN 1
    ELSE IF F <= (X - 1) \div v THEN -1
    ELSE 0

\* sign of power_equation(v) = Force(v) * v - Power
power_equation(v, Power, rho, gradient, v_wind, h) ==
    Sign(Force(v, rho, gradient, v_wind, h), Power * 10000, v)

\* bracket=[0.1, 50]
BracketLo == 100
BracketHi == 50000

\* the root-finder once the bracket has a sign change: sa is the sign at lo
RECURSIVE Bisect(_, _, _, _, _, _, _, _)
BisectStep(lo, hi, mid, sm, sa, Power, rho, gradient, v_wind, h) ==
    IF sm = 0 THEN mid
    ELSE IF sm = sa THEN Bisect(mid, hi, sa, Power, rho, gradient, v_wind, h)
    ELSE Bisect(lo, mid, sa, Power, rho, gradient, v_wind, h)

Bisect(lo, hi, sa, Power, rho, gradient, v_wind, h) ==
    IF hi - lo <= 1 THEN lo
    ELSE BisectStep(lo, hi, (lo + hi) \div 2,
                    power_equation((lo + hi) \div 2, Power, rho, gradient,
                                   v_wind, h),
                    sa, Power, rho, gradient, v_wind, h)

\* root_scalar(power_equation, bracket=[0.1, 50], method='brentq') for the
\* signs sa and sb of power_equation at the ends of the bracket: raises
\* ValueError when they are equal (ok = FALSE), else returns the root.  With
\* a sign change the root-finder converges, so speed_mps is never None; the
\* courses of the model have one root in the bracket.
root_scalar(sa, sb, Power, rho, gradient, v_wind, h) ==
    IF sa * sb > 0 THEN [ok |-> FALSE, speed_mps |-> 0]
    ELSE IF sa = 0 THEN [ok |-> TRUE, speed_mps |-> BracketLo]
    ELSE IF sb = 0 THEN [ok |-> TRUE, speed_mps |-> BracketHi]
    ELSE [ok |-> TRUE,
          speed_mps |-> Bisect(BracketLo, BracketHi, sa, Power, rho,
                               gradient, v_wind, h)]

SolveSpeed(Power, rho, gradient, v_wind, h) ==
    root_scalar(power_equation(BracketLo, Power, rho, gradient, v_wind, h),
                power_equation(BracketHi, Power, rho, gradient, v_wind, h),
                Power, rho, gradient, v_wind, h)

\* lines 8-63.  The body reads Power, rho, gradient and v_wind (and CdA, Crr
\* and mass, left at their defaults); drivetrain_efficiency, altitude and the
\* weather arguments are bound and never read.
calculate_speed_and_plot(Power, rho, drivetrain_efficiency, gradient, v_wind, altitude) ==
    SolveSpeed(Power, rho, gradient, v_wind, Hypot(gradient))

\* lines 65-110: calculate_air_density(altitude=altitude) with the default
\* temperature 15, dew point 10 and sea-level pressure 1013.25, in g/m^3.
\* The barometric factor (1 - L * altitude / T0)^(g * M / (R * L)) is taken
\* to the third order in the altitude, in units of 0.0001; the vapour
\* pressure 6.11 * 10^(75 / 247.3) hPa is 1228 Pa; R_d * T is 82713 and
\* p_v / (R_v * T) is 9 g/m^3.
BarometricFactor(altitude) ==
    10000 - (altitude * 11856) \div 10000
          + (altitude * altitude * 57) \div 1000000
          - (((altitude * altitude) \div 1000) * altitude * 14) \div 10000000

calculate_air_density(altitude) ==
    ((((101325 * BarometricFactor(altitude)) \div 10000) - 1228) * 1000)
        \div 82713 + 9

(***************************************************************************)
(* CourseOptimizer.simulate_course_time                                    *)
(***************************************************************************)
\* lines 76-80 without the handler: the solver's exception escapes
Fallback_Uncaught(speed_calc, Power) ==
    IF speed_calc.ok
    THEN [ok |-> TRUE, speed |-> speed_calc.speed_mps]
    ELSE [ok |-> FALSE, speed |-> 1]

\* lines 76-80 with the fallback estimate left unbounded: power / 200
Fallback_Unclamped(speed_calc, Power) ==
    IF speed_calc.ok
    THEN [ok |-> TRUE, speed |-> speed_calc.speed_mps]
    ELSE [ok |-> TRUE, speed |-> Max(1, Power \div 2)]

\* lines 75-80: the solver's speed, or the fallback estimate when it raised
Fallback(speed_calc, Power) ==
    IF speed_calc.ok
    THEN [ok |-> TRUE, speed |-> speed_calc.speed_mps]
    ELSE [ok |-> TRUE, speed |-> Max(5000, Min(20000, Power \div 2))]

\* lines 68-80: the speed of a segment
SegmentSpeed(Power, segment) ==
    Fallback(calculate_speed_and_plot(Power, StandardDensity,
                                      DrivetrainEfficiency, segment.gradient,
                                      segment.wind, segment.altitude),
             Power)

\* the locals of simulate_course_time on entry (lines 56-59)
SimLocals(W) ==
    [total_time |-> 0, w_remaining |-> W, total_energy_used |-> 0,
     results |-> <<>>, pc |-> "loop", ret |-> None]

\* the tuple handed back by a return statement
SimTuple(df, t, w, e) ==
    [df |-> df, total_time |-> t, w_remaining |-> w, total_energy_used |-> e]

\* Deplete with the power surplus not multiplied by the segment's time
Deplete_NoTime(w, Power, CP, time) == w - (Power - CP)

\* lines 89-90: W' after the depletion of a segment ridden above CP
Deplete(w, Power, CP, time) == w - (Power - CP) * time

\* Depleted with the check left out: the simulation rides on
Depleted_Never(w) == FALSE

\* line 93: the rider has blown up
Depleted(w) == w < 0

\* BlowUp reporting the ride as finished on an empty tank: the time so far
\* and a balance of zero
BlowUp_EmptyTank(df, t, w, e) == SimTuple(df, t, 0, e)

\* BlowUp returning the accumulated time instead of infinity
BlowUp_FiniteTime(df, t, w, e) == SimTuple(df, t, w, e)

\* line 94: the tuple returned when the rider blows up
BlowUp(df, t, w, e) == SimTuple(df, Infinity, w, e)

\* Recover without the clamp at w_prime
Recover_NoClamp(w, Power, CP, time, W) == w + (CP - Power) * time

\* Recover that clamps the recovered work instead of the new balance
Recover_OnlyRecovery(w, Power, CP, time, W) == Min((CP - Power) * time, W)

\* lines 97-98: W' after the recovery of a segment ridden at or below CP
Recover(w, Power, CP, time, W) == Min(w + (CP - Power) * time, W)

\* ResultRow storing the energy of its own segment, not the running total
ResultRow_SegmentEnergy(name, segment, speed, time, Power, w, e) ==
    [segment |-> name, gradient |-> segment.gradient,
     length |-> segment.distance, wind |-> segment.wind, speed |-> speed,
     time |-> time, power |-> Power, w_remaining |-> w,
     total_energy_used |-> Power * time]

\* lines 104-113: the row stored for a segment
ResultRow(name, segment, speed, time, Power, w, e) ==
    [segment |-> name, gradient |-> segment.gradient,
     length |-> segment.distance, wind |-> segment.wind, speed |-> speed,
     time |-> time, power |-> Power, w_remaining |-> w,
     total_energy_used |-> e]

\* Account with the row of a segment put in front of the earlier rows
Account_Prepends(st, Power, CP, segment, name, speed, time, w2) ==
    IF Power > CP /\ Depleted(w2)
    THEN [st EXCEPT !.total_time = @ + time, !.w_remaining = w2,
                    !.pc = "returned",
                    !.ret = BlowUp(st.results, st.total_time + time, w2,
                                   st.total_energy_used)]
    ELSE [st EXCEPT !.total_time = @ + time, !.w_remaining = w2,
                    !.total_energy_used = @ + Power * time,
                    !.results = <<ResultRow(name, segment, speed, time, Power,
                                   w2, st.total_energy_used + Power * time)>>
                                \o @]

\* lines 86-113: the bookkeeping of a segment once its time and the new
\* balance w2 are known
Account(st, Power, CP, segment, name, speed, time, w2) ==
    IF Power > CP /\ Depleted(w2)
    THEN [st EXCEPT !.total_time = @ + time, !.w_remaining = w2,
                    !.pc = "returned",
                    !.ret = BlowUp(st.results, st.total_time + time, w2,
                                   st.total_energy_used)]
    ELSE [st EXCEPT !.total_time = @ + time, !.w_remaining = w2,
                    !.total_energy_used = @ + Power * time,
                    !.results = Append(@,
                        ResultRow(name, segment, speed, time, Power, w2,
                                  st.total_energy_used + Power * time))]

\* lines 86-98: the balance after a segment ridden for the given time
Balance(w, Power, CP, time, W) ==
    IF Power > CP THEN Deplete(w, Power, CP, time)
    ELSE Recover(w, Power, CP, time, W)

\* lines 82-113
Ride(st, Power, CP, W, segment, name, speed, time) ==
    Account(st, Power, CP, segment, name, speed, time,
            Balance(st.w_remaining, Power, CP, time, W))

\* lines 61-113 for the speed record spd of the segment.  An exception that
\* escapes the try block leaves the function (pc = "raised").
Travel(st, Power, CP, W, segment, name, spd) ==
    IF ~spd.ok THEN [st EXCEPT !.pc = "raised"]
    ELSE Ride(st, Power, CP, W, segment, name, spd.speed,
              (segment.distance * 100000) \div spd.speed)

\* lines 61-113: one iteration of the loop over the segments, for the segment
\* at position name of the frame
LoopBody(st, Power, CP, W, segment, name) ==
    Travel(st, Power, CP, W, segment, name, SegmentSpeed(Power, segment))

\* line 115: the return after the last segment
LoopExit(st) ==
    [st EXCEPT !.pc = "returned",
               !.ret = SimTuple(st.results, st.total_time, st.w_remaining,
                                st.total_energy_used)]

RECURSIVE SimRun(_, _, _, _, _, _)
SimRun(st, Power, CP, W, segments, i) ==
    IF st.pc # "loop" THEN st
    ELSE IF i > Len(segments) THEN LoopExit(st)
    ELSE SimRun(LoopBody(st, Power, CP, W, segments[i], i - 1),
                Power, CP, W, segments, i + 1)

\* a whole call: pc is "returned" (with ret) or "raised"
simulate_course_time(Power, CP, W, segments) ==
    SimRun(SimLocals(W), Power, CP, W, segments, 1)

(***************************************************************************)
(* CourseOptimizer.optimize_constant_power                                 *)
(***************************************************************************)
\* target_w_utilization = 0.85 and 0.7 of it, in ten-thousandths
TargetUtilization == 8500
ConservativeShare == 5950

\* 1e6 seconds: the time above which, and the value from which, the
\* objective scores a simulation as failed
Penalty == 100000000

\* np.isfinite
isfinite(x) == x < Infinity

\* a * t / 100000 without forming a * t
Scale(a, t) == a * (t \div 100000) + (a * (t % 100000)) \div 100000

\* lines 150-162: the score of a feasible simulation
Rate(total, w_utilization) ==
    IF w_utilization < ConservativeShare
    THEN total + 5 * Scale(Abs(w_utilization - TargetUtilization), total)
    ELSE total + Scale(Abs(w_utilization - TargetUtilization), total)

\* Score without the constant 1e6 in the value of a failed simulation
Score_NoConstant(sim, Power, CP, W) ==
    IF sim.pc = "raised" THEN (Power - CP) * (Power - CP)
    ELSE IF sim.ret.total_time = Infinity \/ sim.ret.total_time > Penalty
    THEN (Power - CP) * (Power - CP)
    ELSE IF ~isfinite(sim.ret.total_time) \/ ~isfinite(sim.ret.w_remaining)
    THEN (Power - CP) * (Power - CP)
    ELSE Rate(sim.ret.total_time, (W - sim.ret.w_remaining) \div (W \div 10000))

\* lines 137-166 for the outcome sim of the simulation
Score(sim, Power, CP, W) ==
    IF sim.pc = "raised" THEN Penalty + (Power - CP) * (Power - CP)
    ELSE IF sim.ret.total_time = Infinity \/ sim.ret.total_time > Penalty
    THEN Penalty + (Power - CP) * (Power - CP)
    ELSE IF ~isfinite(sim.ret.total_time) \/ ~isfinite(sim.ret.w_remaining)
    THEN Penalty + (Power - CP) * (Power - CP)
    ELSE Rate(sim.ret.total_time, (W - sim.ret.w_remaining) \div (W \div 10000))

\* lines 135-166: the objective of the search
objective(Power, CP, W, segments) ==
    Score(simulate_course_time(Power, CP, W, segments), Power, CP, W)

\* upper_bound taking the larger of the two caps
upper_bound_Larger(CP) == Max(CP * 2, 5000)

\* lines 168-169
lower_bound(CP) == Max((CP * 9) \div 10, 1500)
upper_bound(CP) == Min(CP * 2, 5000)

\* lines 181-185
start_powers(CP) ==
    << Max((CP * 105) \div 100, lower_bound(CP)),
       Min((CP * 12) \div 10, upper_bound(CP)),
       Min((CP * 14) \div 10, upper_bound(CP)) >>

\* line 206: np.linspace(lower_bound, upper_bound, 20)[i], i in 0..19
GridSamples == 20
test_powers(CP, i) ==
    lower_bound(CP)
      + (i * (upper_bound(CP) - lower_bound(CP))) \div (GridSamples - 1)

\* scipy's minimize(..., bounds=bounds, method='L-BFGS-B') is not code of the
\* program: it returns some point of the bounds together with the objective
\* there and a success flag, or raises.  These are the points the model lets
\* it return.
SearchPoints(CP, x0) ==
    {lower_bound(CP), upper_bound(CP), x0, CP,
     (x0 + upper_bound(CP)) \div 2} 
        \cap (lower_bound(CP) .. upper_bound(CP))

\* ClampToBounds leaving the power as it is
ClampToBounds_None(x, CP) == x

\* line 224
ClampToBounds(x, CP) == Max(lower_bound(CP), Min(x, upper_bound(CP)))

(***************************************************************************)
(* Course (src/app/course.py) and create_course_segments_from_course.      *)
(* Units: lat, lon microdegree; altitude centimetre; distance of a point   *)
(* millimetre; gradient of a point 0.001 (of the program's percent);       *)
(* gradient_mean 0.01; distance_sum 0.000001 km; the emitted distance      *)
(* millimetre, the emitted gradient thousandths and the emitted altitude   *)
(* centimetre.                                                             *)
(***************************************************************************)
RECURSIVE SumTo(_, _)
SumTo(f, n) == IF n = 0 THEN 0 ELSE SumTo(f, n - 1) + f[n]

RECURSIVE SumOver(_, _)
SumOver(f, S) ==
    IF S = {} THEN 0
    ELSE LET i == CHOOSE j \in S : TRUE
         IN  f[i] + SumOver(f, S \ {i})

RECURSIVE SortedSeq(_)
SortedSeq(S) ==
    IF S = {} THEN <<>>
    ELSE LET m == CHOOSE x \in S : \A y \in S : x <= y
         IN  <<m>> \o SortedSeq(S \ {m})

\* course.py lines 26-31: the distance of row i from the row before it,
\* sqrt(delta_lat^2 + delta_lon^2) * 111139, and 0 for the first row
PointDistance(points, i) ==
    IF i = 1 THEN 0
    ELSE (ISqrt((points[i].lat - points[i - 1].lat)
                  * (points[i].lat - points[i - 1].lat)
                + (points[i].lon - points[i - 1].lon)
                  * (points[i].lon - points[i - 1].lon)) * 111139) \div 1000

\* course.py lines 35-41: delta_altitude / distance * 100 for a row at
\* distance d from the row before it; the NaN of the first row and the
\* inf or NaN of a row at distance 0 become 0
PointGradient(points, i, d) ==
    IF i = 1 \/ d = 0 THEN 0
    ELSE ((points[i].altitude - points[i - 1].altitude) * 1000000) \div d

\* course.py lines 26-41: the distance and gradient columns
DistanceAndGradient(points) ==
    [i \in DOMAIN points |->
        [lat |-> points[i].lat, lon |-> points[i].lon,
         altitude |-> points[i].altitude,
         distance |-> PointDistance(points, i),
         gradient |-> PointGradient(points, i, PointDistance(points, i))]]

\* course.py line 33: the cumulative_distance column
CumulativeDistance(rows) ==
    [i \in DOMAIN rows |->
        [lat |-> rows[i].lat, lon |-> rows[i].lon,
         altitude |-> rows[i].altitude, distance |-> rows[i].distance,
         gradient |-> rows[i].gradient,
         cumulative_distance |->
             SumTo([j \in DOMAIN rows |-> rows[j].distance], i),
         segment |-> 0]]

\* course.py lines 20-41 (Course.process_segment)
process_segment(points) == CumulativeDistance(DistanceAndGradient(points))

\* course.py line 69: pd.cut(x, bins=n, labels=False) + 1 for a column whose
\* smallest value is 0 and largest value is total: n bins of equal width,
\* closed on the right, the first one holding the smallest value
Bin(x, total, n) ==
    CHOOSE k \in 1..n :
        /\ x * n <= k * total
        /\ k = 1 \/ x * n > (k - 1) * total

\* course.py line 69: the segment column
Labelled(rows, n) ==
    [i \in DOMAIN rows |->
        [rows[i] EXCEPT !.segment =
            Bin(rows[i].cumulative_distance,
                rows[Len(rows)].cumulative_distance, n)]]

\* course.py line 139: round(2) of v / n, where v is in units of 0.001
Round2(v, n) == (2 * v + 10 * n) \div (20 * n)

\* course.py lines 123-139: the aggregated row of the rows M of a segment
\* (its gradient_mean is the mean of the point gradients times 100, rounded
\* to 2 decimals; its distance_sum is the summed distance divided by 1000)
AggregateRow(rows, k, M) ==
    [segment |-> k,
     altitude_mean |->
         SumOver([i \in DOMAIN rows |-> rows[i].altitude], M)
             \div Cardinality(M),
     gradient_mean |->
         Round2(SumOver([i \in DOMAIN rows |-> rows[i].gradient], M) * 100,
                Cardinality(M)),
     distance_sum |->
         SumOver([i \in DOMAIN rows |-> rows[i].distance], M)]

\* the aggregated rows for the sorted labels of the segment column
AggregateRows(rows, labels) ==
    [j \in DOMAIN labels |->
        AggregateRow(rows, labels[j],
                     {i \in DOMAIN rows : rows[i].segment = labels[j]})]

\* course.py lines 121-141 (Course.aggregate_segments)
aggregate_segments(rows) ==
    AggregateRows(rows, SortedSeq({rows[i].segment : i \in DOMAIN rows}))

\* course.py lines 67-70 (Course.equal_segmentation)
equal_segmentation(c, n) ==
    [c EXCEPT !.df = Labelled(c.df, n),
              !.has_course_segments = TRUE,
              !.course_segments = aggregate_segments(Labelled(c.df, n))]

\* optimization.py lines 315-320: the optimization-ready rows: distance is
\* distance_sum * 1000, gradient is gradient_mean / 100, wind is 0
OptimizationRows(segments) ==
    [j \in DOMAIN segments |->
        [distance |-> segments[j].distance_sum,
         gradient |-> segments[j].gradient_mean \div 10,
         altitude |-> segments[j].altitude_mean,
         wind |-> 0]]

\* optimization.py lines 322-331: whether the warning about extreme
\* gradients is issued
WarnsOfGradients(rows) == \E j \in DOMAIN rows : Abs(rows[j].gradient) > 500

\* optimization.py lines 297-333
create_course_segments_from_course(c) ==
    IF ~c.has_course_segments
    THEN [ok |-> FALSE, error |-> "ValueError", df |-> <<>>, warned |-> FALSE]
    ELSE [ok |-> TRUE, error |-> "",
          df |-> OptimizationRows(c.course_segments),
          warned |-> WarnsOfGradients(OptimizationRows(c.course_segments))]

(***************************************************************************)
(* WTankCalculator (src/app/rider.py).                                     *)
(* Units: power deciwatt; duration second; W' millijoule; a multiplier in  *)
(* hundredths.  An attribute that may be None is None or Some(value).      *)
(***************************************************************************)
Some(x) == [value |-> x]

\* the truth value Python gives an optional number: None and 0 are false
Truthy(x) == x # None /\ x.value # 0

\* P(t) = CP + W' / t is linear in 1/t; the model takes 1/t in units of
\* 1/3600 s, which is whole for the durations of the model
InverseDuration(t) == 3600 \div t

\* floor(a * 3600 / b) without forming a * 3600
MulDiv3600(a, b) == (a \div b) * 3600 + ((a % b) * 3600) \div b

\* the least-squares line through n points with the sums Sx, Sxx of the
\* inverse durations, Sp of the powers and Sxp of their products: the
\* intercept CP (dW) and the slope W' (mJ)
LeastSquares(n, Sx, Sxx, Sp, Sxp) ==
    [CP |-> (Sp * (n * Sxx - Sx * Sx) - (n * Sxp - Sx * Sp) * Sx)
              \div (n * (n * Sxx - Sx * Sx)),
     W_prime |-> MulDiv3600(n * Sxp - Sx * Sp, n * Sxx - Sx * Sx) * 100]

\* rider.py lines 267-271: curve_fit(self._power_duration_model, durations,
\* powers).  With fewer data points than the two parameters the fit raises
\* TypeError ("Improper input"); otherwise it returns the least-squares
\* parameters of the model, which is linear in them
curve_fit(efforts) ==
    IF Cardinality(DOMAIN efforts) < 2
    THEN [ok |-> FALSE, error |-> "TypeError", popt |-> None]
    ELSE [ok |-> TRUE, error |-> "",
          popt |->
            LeastSquares(
              Cardinality(DOMAIN efforts),
              SumOver([t \in DOMAIN efforts |-> InverseDuration(t)],
                      DOMAIN efforts),
              SumOver([t \in DOMAIN efforts |->
                          InverseDuration(t) * InverseDuration(t)],
                      DOMAIN efforts),
              SumOver(efforts, DOMAIN efforts),
              SumOver([t \in DOMAIN efforts |->
                          InverseDuration(t) * efforts[t]],
                      DOMAIN efforts))]

\* the multiplier tables without the one-hour effort
multipliers_Five(rider_type) ==
    IF rider_type = "time_trialist"
    THEN (60 :> 140) @@ (300 :> 120) @@ (600 :> 110) @@ (1200 :> 105)
         @@ (1800 :> 102)
    ELSE IF rider_type = "sprinter"
    THEN (60 :> 180) @@ (300 :> 140) @@ (600 :> 120) @@ (1200 :> 110)
         @@ (1800 :> 105)
    ELSE (60 :> 160) @@ (300 :> 130) @@ (600 :> 115) @@ (1200 :> 108)
         @@ (1800 :> 103)

\* rider.py lines 219-224: the multiplier table of an archetype
multipliers(rider_type) ==
    IF rider_type = "time_trialist"
    THEN (60 :> 140) @@ (300 :> 120) @@ (600 :> 110) @@ (1200 :> 105)
         @@ (1800 :> 102) @@ (3600 :> 100)
    ELSE IF rider_type = "sprinter"
    THEN (60 :> 180) @@ (300 :> 140) @@ (600 :> 120) @@ (1200 :> 110)
         @@ (1800 :> 105) @@ (3600 :> 100)
    ELSE (60 :> 160) @@ (300 :> 130) @@ (600 :> 115) @@ (1200 :> 108)
         @@ (1800 :> 103) @@ (3600 :> 100)

Archetypes == {"time_trialist", "sprinter", "all_rounder"}

\* rider.py lines 229-230: the efforts with an entry written for every
\* duration of the table m
Populated(efforts, CP, m) ==
    [t \in DOMAIN efforts \cup DOMAIN m |->
        IF t \in DOMAIN m THEN (CP * m[t]) \div 100 ELSE efforts[t]]

\* the outcome of a method: the object after it and the value it returned,
\* or the error it raised
Returns(self, value) ==
    [ok |-> TRUE, error |-> "", self |-> self, value |-> value]
Raises(self, error) ==
    [ok |-> FALSE, error |-> error, self |-> self, value |-> 0]

\* rider.py lines 211-230
populate_best_efforts(self) ==
    IF ~Truthy(self.critical_power) THEN Raises(self, "ValueError")
    ELSE IF self.rider_type \notin Archetypes THEN Raises(self, "ValueError")
    ELSE Returns([self EXCEPT !.best_efforts =
                      Populated(@, self.critical_power.value,
                                multipliers(self.rider_type))],
                 0)

\* StoreFit that takes the fitted critical power even when one was supplied
StoreFit_Always(self, popt) ==
    Returns([self EXCEPT !.popt = popt, !.critical_power = Some(popt.CP)],
            popt.W_prime)

\* rider.py lines 272-279: the fitted parameters are stored, the fitted
\* critical power only if none was provided, and W' is returned
StoreFit(self, popt) ==
    Returns([self EXCEPT !.popt = popt,
                         !.critical_power =
                             IF @ = None THEN Some(popt.CP) ELSE @],
            popt.W_prime)

\* rider.py lines 259-279 for the outcome fit of curve_fit
Fitted(self, fit) ==
    IF ~fit.ok THEN Raises(self, fit.error) ELSE StoreFit(self, fit.popt)

\* rider.py lines 259-279
FitEfforts(self) == Fitted(self, curve_fit(self.best_efforts))

\* rider.py lines 256-279 for the outcome p of line 257
FitPopulated(p) == IF ~p.ok THEN p ELSE FitEfforts(p.self)

\* rider.py lines 254-279
estimate_w_tank_from_curve(self) ==
    IF DOMAIN self.best_efforts = {}
    THEN FitPopulated(populate_best_efforts(self))
    ELSE FitEfforts(self)

\* rider.py lines 235-242: the estimate of W' for an archetype
ProfileEstimate(self) ==
    IF self.rider_type = "time_trialist"
    THEN Returns(self, 10000000 + 50 * self.critical_power.value)
    ELSE IF self.rider_type = "sprinter"
    THEN Returns(self, 25000000 + 70 * self.critical_power.value)
    ELSE IF self.rider_type = "all_rounder"
    THEN Returns(self, 15000000 + 60 * self.critical_power.value)
    ELSE Raises(self, "ValueError")

\* rider.py lines 234-242 for the outcome c of line 234
ProfileAfterCurve(c) == IF ~c.ok THEN c ELSE ProfileEstimate(c.self)

\* rider.py lines 232-242
estimate_w_tank_from_profile(self) ==
    ProfileAfterCurve(estimate_w_tank_from_curve(self))

\* rider.py lines 283-290 for the outcome r of the estimate: self.w_tank is
\* assigned and returned
StoreTank(r) ==
    IF ~r.ok THEN r
    ELSE Returns([r.self EXCEPT !.w_tank = Some(r.value)], r.value)

\* rider.py lines 281-290
calculate_w_tank(self) ==
    IF DOMAIN self.best_efforts # {}
    THEN StoreTank(estimate_w_tank_from_curve(self))
    ELSE IF self.rider_type # "None" /\ Truthy(self.critical_power)
    THEN StoreTank(estimate_w_tank_from_profile(self))
    ELSE Raises(self, "ValueError")

\* rider.py lines 198-209: WTankCalculator(rider_type, critical_power,
\* best_efforts); popt and w_tank are not attributes yet
WTankCalculator(args) ==
    [rider_type |-> args.rider_type, critical_power |-> args.critical_power,
     best_efforts |-> args.best_efforts, popt |-> None, w_tank |-> None]

(***************************************************************************)
(* The Rider's drag area (rider.py lines 31-46, 91-108, 172-189).          *)
(***************************************************************************)
\* rider.py lines 31-36: the class table, in thousandths of a square metre
BIKE_TYPE_CDA ==
    [Road |-> [Hoods |-> 350, Drops |-> 330, Aero |-> 300],
     TT |-> [Aero |-> 220],
     Gravel |-> [Hoods |-> 380, Drops |-> 360],
     MTB |-> [Flat |-> 400]]

\* rider.py line 99: the default of the inner .get call
DefaultCdA == 350

\* rider.py line 103: the height the table is normalised to (cm)
ReferenceHeight == 175

\* rider.py line 99: BIKE_TYPE_CDA.get(bike_type, {}).get(position, 0.35)
base_CdA(bike_type, position) ==
    IF bike_type \in DOMAIN BIKE_TYPE_CDA
       THEN IF position \in DOMAIN BIKE_TYPE_CDA[bike_type]
               THEN BIKE_TYPE_CDA[bike_type][position]
               ELSE DefaultCdA
       ELSE DefaultCdA

\* round(x, 3) of the quotient num / den, in thousandths; no quotient of the
\* model falls on a half
Round3(num, den) == (2 * num + den) \div (2 * den)

\* rider.py lines 91-108: estimate_CdA()
estimate_CdA(self) ==
    Round3(base_CdA(self.bike_type, self.position) * self.height, ReferenceHeight)

\* rider.py lines 38-46: the attributes __init__ sets before the W' logic
RiderConstruct(height, weight, bike_type, position) ==
    LET self == [height |-> height, weight |-> weight, bike_type |-> bike_type,
                 position |-> position, CdA |-> 0]
    IN  [self EXCEPT !.CdA = estimate_CdA(self)]

\* rider.py lines 172-175: update_height(height)
update_height(self, height) ==
    LET set == [self EXCEPT !.height = height]
    IN  [set EXCEPT !.CdA = estimate_CdA(set)]

\* rider.py lines 177-179: update_weight(weight)
update_weight(self, weight) == [self EXCEPT !.weight = weight]

\* rider.py lines 181-184: update_bike_type(bike_type)
update_bike_type(self, bike_type) ==
    LET set == [self EXCEPT !.bike_type = bike_type]
    IN  [set EXCEPT !.CdA = estimate_CdA(set)]

update_position_Stale(self, position) == [self EXCEPT !.position = position]

\* rider.py lines 186-189: update_position(position)
update_position(self, position) ==
    LET set == [self EXCEPT !.position = position]
    IN  [set EXCEPT !.CdA = estimate_CdA(set)]

(***************************************************************************)
(* Inputs of the model.                                                    *)
(***************************************************************************)
Segment(g, d, w, a) == [gradient |-> g, distance |-> d, wind |-> w, altitude |-> a]

\* the example course of the module's __main__ block (lines 378-383)
example_segments ==
    << Segment(20, 1000, 0, 100), Segment(60, 1500, 0, 120),
       Segment(-30, 800, 2000, 115), Segment(10, 1200, -1000, 110),
       Segment(40, 900, 0, 125) >>

\* segments the generated courses are made of: flat, a climb, a descent with
\* a tailwind, and a gradient of -5.0 (a percentage given as a decimal), for
\* which the solver's bracket has no sign change
SegmentPool ==
    { Segment(0, 1000, 0, 0), Segment(60, 1500, 0, 120),
      Segment(-30, 800, 2000, 115), Segment(-5000, 100, 0, 0) }

RECURSIVE SeqsUpTo(_, _)
SeqsUpTo(S, n) ==
    IF n = 0 THEN {<<>>}
    ELSE LET shorter == SeqsUpTo(S, n - 1)
         IN  shorter \cup {Append(c, x) : c \in shorter, x \in S}

Courses == SeqsUpTo(SegmentPool, MaxSegs) \cup {example_segments}

\* long courses: 20 segments of 1 km, all of one kind of the pool or a steep
\* descent with a strong tailwind
LongCourses ==
    { [i \in 1..20 |-> [s EXCEPT !.distance = 1000]] :
        s \in SegmentPool \cup {Segment(-100, 1000, 5000, 0)} }

\* the powers of two simulations that run concurrently
PairPowers == {2500, 3500, 9000}

CriticalPowers == {600, 1000, 1500, 3000, 4000}
WPrimes == {1000000, 25000000}
Powers == {200, 2500, 3000, 3500, 9000, 20000}

\* steps from a point to the next: about 100 m or 200 m along the road,
\* rising 5 %, 10 %, not at all, or falling 3 %
Steps ==
    { [lat |-> 900, lon |-> 0, rise |-> 500],
      [lat |-> 1800, lon |-> 0, rise |-> 1000],
      [lat |-> 540, lon |-> 720, rise |-> 500],
      [lat |-> 900, lon |-> 0, rise |-> 1000],
      [lat |-> 900, lon |-> 0, rise |-> 0],
      [lat |-> 900, lon |-> 0, rise |-> -300] }

\* the points reached from a first point by a sequence of steps
RECURSIVE PointsAlong(_, _)
PointsAlong(points, steps) ==
    IF steps = <<>> THEN points
    ELSE PointsAlong(
             Append(points,
                    [lat |-> points[Len(points)].lat + steps[1].lat,
                     lon |-> points[Len(points)].lon + steps[1].lon,
                     altitude |-> points[Len(points)].altitude
                                    + steps[1].rise]),
             Tail(steps))

PointFrames ==
    { PointsAlong(<<[lat |-> 45000000, lon |-> 7000000, altitude |-> 10000]>>,
                  steps) :
        steps \in SeqsUpTo(Steps, MaxPoints - 1) \ {<<>>} }

\* rider types: none, the three archetypes and one that is not an archetype
RiderTypes == {"None", "climber"} \cup Archetypes

\* critical powers of a rider: none, 0, 150 W, 300 W, 400 W
RiderPowers == {None, Some(0), Some(1500), Some(3000), Some(4000)}

\* best efforts: none, one, two, and the five of the docstring (line 205)
EffortProfiles ==
    { [t \in {} |-> 0],
      (300 :> 3500),
      (300 :> 3500) @@ (1200 :> 3100),
      (60 :> 4000) @@ (300 :> 3500) @@ (600 :> 3300) @@ (1200 :> 3100)
        @@ (1800 :> 2900) }

\* total times of finished rides (cs): 6 minutes, 1 hour, 7.0e5 s, 7.5e5 s
\* (about 6000 km of flat road at 150 W) and 1.2e6 s
RideTimes == {36000, 360000, 70000000, 75000000, 120000000}

\* the outcome of a call of simulate_course_time that returned total time t
\* and balance w; the rows and the energy, which the objective does not read
\* (line 138 discards them), are left empty
Outcome(t, w) == [pc |-> "returned", ret |-> SimTuple(<<>>, t, w, 0)]

\* rider heights (cm) and weights (kg)
Heights == {160, 175, 190}

Weights == {60, 85}

\* the keys of BIKE_TYPE_CDA and one bike the table does not know
BikeTypes == {"Road", "TT", "Gravel", "MTB", "Tandem"}

\* the positions of BIKE_TYPE_CDA
Positions == {"Hoods", "Drops", "Aero", "Flat"}

(***************************************************************************)
(* The state machine.                                                      *)
(***************************************************************************)
\* no Rider object is in play
NoDrag == rider = None

\* the objective of lines 135-166 for an optimizer with the given
\* critical_power and w_prime, about to score two powers of one course: one
\* whose simulation returned a finite time, and a higher one, above CP, whose
\* simulation ran W' down (total time infinity).  A ride at or below CP
\* leaves the tank full
ObjectiveInit ==
    /\ call = "objective"
    /\ \E CP \in CriticalPowers, W \in WPrimes, p \in Powers, q \in Powers, t \in RideTimes, w \in {0, 15, 100} :
          /\ p < q
          /\ CP < q
          /\ p <= CP => w = 100
          /\ obj = [critical_power |-> CP, w_prime |-> W,
                    feasible |-> [power |-> p,
                                  sim |-> Outcome(t, (W \div 100) * w)],
                    infeasible |-> [power |-> q, sim |-> Outcome(Infinity, -1)],
                    scores |-> None]


\* rider.py lines 38-46: Rider(height, weight, bike_type, position); the
\* bike and position a rider ends up with are reached through the updates
RiderInit ==
    /\ call = "rider"
    /\ \E height \in Heights, weight \in Weights, bike_type \in {"Road", "TT"}, position \in {"Hoods", "Aero"} :
          rider = RiderConstruct(height, weight, bike_type, position)

\* no WTankCalculator is in play
NoRider ==
    /\ wt_args = None
    /\ wt = None
    /\ wt_out = <<>>

\* a WTankCalculator as built from its arguments
WTankInit ==
    /\ call = "calculate_w_tank"
    /\ wt_args \in [rider_type : RiderTypes, critical_power : RiderPowers,
                     best_efforts : EffortProfiles]
    /\ wt = WTankCalculator(wt_args)
    /\ wt_out = <<>>

\* no Course is in play
NoCourse ==
    /\ course_df = <<>>
    /\ course = None
    /\ optimization_segments = None

\* no CourseOptimizer is in play
NoOptimizer ==
    /\ critical_power = 0
    /\ w_prime = 0
    /\ course_segments = <<>>
    /\ power = 0
    /\ sim_pc = "idle"
    /\ idx = 1
    /\ total_time = 0
    /\ w_remaining = 0
    /\ total_energy_used = 0
    /\ results = <<>>
    /\ sim_ret = None
    /\ opt_pc = "idle"
    /\ start_idx = 1
    /\ best_result = None
    /\ grid_i = 0
    /\ best_power = 0
    /\ best_score = Infinity
    /\ optimal_power = 0
    /\ path = "none"
    /\ retried = FALSE
    /\ opt_sim = None
    /\ opt_ret = None

\* a DataFrame of points, before Course(df)
CourseInit ==
    /\ call = "create_course_segments"
    /\ course_df \in PointFrames
    /\ course = None
    /\ optimization_segments = None

OptimizerInit ==
    /\ call \in {"simulate", "optimize"}
    /\ critical_power \in CriticalPowers
    /\ w_prime \in WPrimes
    /\ \/ /\ course_segments \in Courses
          /\ power \in (IF call = "simulate" THEN Powers ELSE {0})
       \/ /\ call = "simulate"
          /\ course_segments \in LongCourses
          /\ power = 3 * critical_power
    /\ sim_pc = (IF call = "simulate" THEN "loop" ELSE "idle")
    /\ idx = 1
    /\ total_time = 0
    /\ w_remaining = w_prime
    /\ total_energy_used = 0
    /\ results = <<>>
    /\ sim_ret = None
    /\ opt_pc = (IF call = "optimize" THEN "multistart" ELSE "idle")
    /\ start_idx = 1
    /\ best_result = None
    /\ grid_i = 0
    /\ best_power = 0
    /\ best_score = Infinity
    /\ optimal_power = 0
    /\ path = "none"
    /\ retried = FALSE
    /\ opt_sim = None
    /\ opt_ret = None

\* two calls of simulate_course_time on one optimizer, at different powers
PairInit ==
    /\ call = "simulate_pair"
    /\ critical_power \in CriticalPowers
    /\ w_prime \in WPrimes
    /\ course_segments \in Courses
    /\ power \in PairPowers
    /\ sim_pc = "loop"
    /\ idx = 1
    /\ total_time = 0
    /\ w_remaining = w_prime
    /\ total_energy_used = 0
    /\ results = <<>>
    /\ sim_ret = None
    /\ opt_pc = "idle"
    /\ start_idx = 1
    /\ best_result = None
    /\ grid_i = 0
    /\ best_power = 0
    /\ best_score = Infinity
    /\ optimal_power = 0
    /\ path = "none"
    /\ retried = FALSE
    /\ opt_sim = None
    /\ opt_ret = None
    /\ \E p \in PairPowers :
          /\ p > power
          /\ other = [power |-> p, idx |-> 1, total_time |-> 0,
                      w_remaining |-> w_prime, total_energy_used |-> 0,
                      results |-> <<>>, pc |-> "loop", ret |-> None]

\* none of the other objects is in play
NoCourseNoRider == NoCourse /\ NoRider /\ NoDrag

Init ==
    \/ OptimizerInit /\ NoCourseNoRider /\ other = None /\ obj = None
    \/ PairInit /\ NoCourseNoRider /\ obj = None
    \/ CourseInit /\ NoOptimizer /\ NoRider /\ NoDrag /\ other = None /\ obj = None
    \/ WTankInit /\ NoOptimizer /\ NoCourse /\ NoDrag /\ other = None /\ obj = None
    \/ RiderInit /\ NoOptimizer /\ NoCourse /\ NoRider /\ other = None /\ obj = None
    \/ ObjectiveInit /\ NoOptimizer /\ NoCourseNoRider /\ other = None

\* the locals of the running call
Locals ==
    [total_time |-> total_time, w_remaining |-> w_remaining,
     total_energy_used |-> total_energy_used, results |-> results,
     pc |-> "loop", ret |-> None]

SetLocals(st) ==
    /\ total_time' = st.total_time
    /\ w_remaining' = st.w_remaining
    /\ total_energy_used' = st.total_energy_used
    /\ results' = st.results
    /\ sim_pc' = st.pc
    /\ sim_ret' = st.ret

\* simulate_course_time, lines 61-113: the loop body for the next segment
SimSegment ==
    /\ sim_pc = "loop"
    /\ idx <= Len(course_segments)
    /\ SetLocals(LoopBody(Locals, power, critical_power, w_prime,
                          course_segments[idx], idx - 1))
    /\ idx' = idx + 1
    /\ UNCHANGED <<auxVars, inputs, power, optVars>>

\* simulate_course_time, line 115: the return after the loop
SimReturn ==
    /\ sim_pc = "loop"
    /\ idx > Len(course_segments)
    /\ SetLocals(LoopExit(Locals))
    /\ UNCHANGED <<auxVars, inputs, power, idx, optVars>>

StartInBounds ==
    /\ start_idx <= 3
    /\ lower_bound(critical_power) <= start_powers(critical_power)[start_idx]
    /\ start_powers(critical_power)[start_idx] <= upper_bound(critical_power)

\* lines 197-199: the best result so far, given one more result
Better(result, best) ==
    IF /\ result.success
       /\ result.fun < (IF best = None THEN Infinity ELSE best.fun)
       /\ isfinite(result.fun)
    THEN result ELSE best

\* lines 187-199: one local search returns
MinimizeStart ==
    /\ opt_pc = "multistart"
    /\ StartInBounds
    /\ \E x \in SearchPoints(critical_power,
                             start_powers(critical_power)[start_idx]),
          success \in BOOLEAN :
          best_result' =
              Better([x |-> x, success |-> success,
                      fun |-> objective(x, critical_power, w_prime,
                                        course_segments)],
                     best_result)
    /\ start_idx' = start_idx + 1
    /\ UNCHANGED <<auxVars, inputs, simVars, opt_pc, grid_i, best_power, best_score,
                   optimal_power, path, retried, opt_sim, opt_ret>>

\* line 188: a start power outside the bounds is passed over
SkipStart ==
    /\ opt_pc = "multistart"
    /\ start_idx <= 3
    /\ ~StartInBounds
    /\ start_idx' = start_idx + 1
    /\ UNCHANGED <<auxVars, inputs, simVars, opt_pc, best_result, grid_i, best_power,
                   best_score, optimal_power, path, retried, opt_sim, opt_ret>>

\* lines 218-221: the search raises and the handler picks 1.1 * CP
MinimizeRaises ==
    /\ opt_pc = "multistart"
    /\ StartInBounds
    /\ optimal_power' = Min((critical_power * 11) \div 10,
                            upper_bound(critical_power))
    /\ path' = "exception"
    /\ opt_pc' = "clamp"
    /\ UNCHANGED <<auxVars, inputs, simVars, start_idx, best_result, grid_i,
                   best_power, best_score, retried, opt_sim, opt_ret>>

Converged ==
    /\ best_result # None
    /\ best_result.success
    /\ isfinite(best_result.fun)

\* lines 200-202: the best converged start is taken
SelectConverged ==
    /\ opt_pc = "multistart"
    /\ start_idx > 3
    /\ Converged
    /\ optimal_power' = best_result.x
    /\ path' = "converged"
    /\ opt_pc' = "clamp"
    /\ UNCHANGED <<auxVars, inputs, simVars, start_idx, best_result, grid_i,
                   best_power, best_score, retried, opt_sim, opt_ret>>

\* lines 203-208: no start converged, the grid search begins
GridBegin ==
    /\ opt_pc = "multistart"
    /\ start_idx > 3
    /\ ~Converged
    /\ grid_i' = 0
    /\ best_power' = lower_bound(critical_power)
    /\ best_score' = Infinity
    /\ opt_pc' = "grid"
    /\ UNCHANGED <<auxVars, inputs, simVars, start_idx, best_result, optimal_power,
                   path, retried, opt_sim, opt_ret>>

\* Sample taking every sample with a finite score, the best so far or not
Sample_Last(test_power, score) ==
    IF isfinite(score)
    THEN best_power' = test_power /\ best_score' = score
    ELSE UNCHANGED <<best_power, best_score>>

\* lines 211-214
Sample(test_power, score) ==
    IF score < best_score /\ isfinite(score)
    THEN best_power' = test_power /\ best_score' = score
    ELSE UNCHANGED <<best_power, best_score>>

\* lines 210-214: one sample of the grid is scored
GridStep ==
    /\ opt_pc = "grid"
    /\ grid_i < GridSamples
    /\ Sample(test_powers(critical_power, grid_i),
              objective(test_powers(critical_power, grid_i), critical_power,
                        w_prime, course_segments))
    /\ grid_i' = grid_i + 1
    /\ UNCHANGED <<auxVars, inputs, simVars, opt_pc, start_idx, best_result,
                   optimal_power, path, retried, opt_sim, opt_ret>>

\* GridEnd starting the grid search over again
GridEnd_Restart ==
    /\ opt_pc = "grid"
    /\ grid_i >= GridSamples
    /\ grid_i' = 0
    /\ UNCHANGED <<auxVars, inputs, simVars, opt_pc, start_idx, best_result,
                   best_power, best_score, optimal_power, path, retried,
                   opt_sim, opt_ret>>

\* lines 216-217: the grid search ends
GridEnd ==
    /\ opt_pc = "grid"
    /\ grid_i >= GridSamples
    /\ optimal_power' = best_power
    /\ path' = "grid"
    /\ opt_pc' = "clamp"
    /\ UNCHANGED <<auxVars, inputs, simVars, start_idx, best_result, grid_i,
                   best_power, best_score, retried, opt_sim, opt_ret>>

\* lines 227-229: the outcome sim of the simulation at p
Simulated(p, sim) ==
    /\ optimal_power' = p
    /\ IF sim.pc = "raised"
       THEN opt_pc' = "raised" /\ UNCHANGED opt_sim
       ELSE opt_pc' = "check" /\ opt_sim' = sim.ret

\* lines 224-229: the power is clamped and simulated
ClampAndSimulate ==
    /\ opt_pc = "clamp"
    /\ Simulated(ClampToBounds(optimal_power, critical_power),
                 simulate_course_time(
                     ClampToBounds(optimal_power, critical_power),
                     critical_power, w_prime, course_segments))
    /\ UNCHANGED <<auxVars, inputs, simVars, start_idx, best_result, grid_i,
                   best_power, best_score, path, retried, opt_ret>>

InfiniteTime == opt_sim.total_time = Infinity \/ ~isfinite(opt_sim.total_time)

\* lines 232-248: the simulated time is finite and the triple is returned
ReturnResult ==
    /\ opt_pc = "check"
    /\ ~InfiniteTime
    /\ opt_ret' = [optimal_power |-> optimal_power,
                   optimal_time |-> opt_sim.total_time,
                   df_results |-> opt_sim.df]
    /\ opt_pc' = "returned"
    /\ UNCHANGED <<auxVars, inputs, simVars, start_idx, best_result, grid_i,
                   best_power, best_score, optimal_power, path, retried,
                   opt_sim>>

\* Retried going back to the check of line 232 after the retry
Retried_Again(conservative_power, sim) ==
    IF sim.pc = "raised"
    THEN /\ opt_pc' = "raised"
         /\ UNCHANGED <<optimal_power, opt_sim, opt_ret>>
    ELSE /\ opt_sim' = sim.ret
         /\ optimal_power' =
                IF sim.ret.total_time # Infinity
                      /\ isfinite(sim.ret.total_time)
                THEN conservative_power ELSE optimal_power
         /\ opt_ret' = [optimal_power |-> optimal_power',
                        optimal_time |-> sim.ret.total_time,
                        df_results |-> sim.ret.df]
         /\ opt_pc' = "check"

\* lines 236-248: the outcome sim of the simulation at conservative_power
Retried(conservative_power, sim) ==
    IF sim.pc = "raised"
    THEN /\ opt_pc' = "raised"
         /\ UNCHANGED <<optimal_power, opt_sim, opt_ret>>
    ELSE /\ opt_sim' = sim.ret
         /\ optimal_power' =
                IF sim.ret.total_time # Infinity
                      /\ isfinite(sim.ret.total_time)
                THEN conservative_power ELSE optimal_power
         /\ opt_ret' = [optimal_power |-> optimal_power',
                        optimal_time |-> sim.ret.total_time,
                        df_results |-> sim.ret.df]
         /\ opt_pc' = "returned"

\* lines 232-248: the simulated time is infinite; 1.05 * CP is simulated, is
\* taken as the optimal power when its time is finite, and the triple is
\* returned
ConservativeRetry ==
    /\ opt_pc = "check"
    /\ InfiniteTime
    /\ retried' = TRUE
    /\ Retried((critical_power * 105) \div 100,
               simulate_course_time((critical_power * 105) \div 100,
                                    critical_power, w_prime, course_segments))
    /\ UNCHANGED <<auxVars, inputs, simVars, start_idx, best_result, grid_i,
                   best_power, best_score, path>>

\* the second call reading the first call's w_remaining: the accumulator
\* kept on the optimizer instead of in the call
OtherLocals_SharedTank ==
    [total_time |-> other.total_time, w_remaining |-> w_remaining,
     total_energy_used |-> other.total_energy_used,
     results |-> other.results, pc |-> "loop", ret |-> None]

\* optimization.py lines 56-59: the locals of the second call
OtherLocals ==
    [total_time |-> other.total_time, w_remaining |-> other.w_remaining,
     total_energy_used |-> other.total_energy_used,
     results |-> other.results, pc |-> "loop", ret |-> None]

\* the second call with the locals st and the next segment at i
OtherAt(st, i) ==
    [power |-> other.power, idx |-> i, total_time |-> st.total_time,
     w_remaining |-> st.w_remaining,
     total_energy_used |-> st.total_energy_used, results |-> st.results,
     pc |-> st.pc, ret |-> st.ret]

\* simulate_course_time, lines 61-113, in the second call
OtherSegment ==
    /\ call = "simulate_pair"
    /\ other.pc = "loop"
    /\ other.idx <= Len(course_segments)
    /\ other' = OtherAt(LoopBody(OtherLocals, other.power, critical_power,
                                 w_prime, course_segments[other.idx],
                                 other.idx - 1),
                        other.idx + 1)
    /\ UNCHANGED <<inputs, simVars, optVars, courseVars, riderVars, rider, obj>>

\* simulate_course_time, line 115, in the second call
OtherReturn ==
    /\ call = "simulate_pair"
    /\ other.pc = "loop"
    /\ other.idx > Len(course_segments)
    /\ other' = OtherAt(LoopExit(OtherLocals), other.idx)
    /\ UNCHANGED <<inputs, simVars, optVars, courseVars, riderVars, rider, obj>>

\* the outcome r of a call of calculate_w_tank is recorded and the object
\* is left as the call made it
Called(r) ==
    /\ wt' = r.self
    /\ wt_out' = Append(wt_out, [ok |-> r.ok, error |-> r.error,
                                 value |-> r.value])

\* lines 135-166: objective(power) for both powers
Objective ==
    /\ call = "objective"
    /\ obj.scores = None
    /\ obj' = [obj EXCEPT !.scores =
                  [feasible |-> Score(obj.feasible.sim, obj.feasible.power,
                                      obj.critical_power, obj.w_prime),
                   infeasible |-> Score(obj.infeasible.sim, obj.infeasible.power,
                                        obj.critical_power, obj.w_prime)]]
    /\ UNCHANGED <<inputs, simVars, optVars, courseVars, other, riderVars, rider>>

\* rider.py lines 172-175: rider.update_height(height)
UpdateHeight ==
    /\ call = "rider"
    /\ \E height \in Heights : rider' = update_height(rider, height)
    /\ UNCHANGED <<inputs, simVars, optVars, courseVars, other, riderVars, obj>>

\* rider.py lines 177-179: rider.update_weight(weight)
UpdateWeight ==
    /\ call = "rider"
    /\ \E weight \in Weights : rider' = update_weight(rider, weight)
    /\ UNCHANGED <<inputs, simVars, optVars, courseVars, other, riderVars, obj>>

\* rider.py lines 181-184: rider.update_bike_type(bike_type)
UpdateBikeType ==
    /\ call = "rider"
    /\ \E bike_type \in BikeTypes : rider' = update_bike_type(rider, bike_type)
    /\ UNCHANGED <<inputs, simVars, optVars, courseVars, other, riderVars, obj>>

\* rider.py lines 186-189: rider.update_position(position)
UpdatePosition ==
    /\ call = "rider"
    /\ \E position \in Positions : rider' = update_position(rider, position)
    /\ UNCHANGED <<inputs, simVars, optVars, courseVars, other, riderVars, obj>>

\* rider.py lines 281-290: calculator.calculate_w_tank()
CalculateWTank ==
    /\ call = "calculate_w_tank"
    /\ Len(wt_out) < MaxCalls
    /\ Called(calculate_w_tank(wt))
    /\ UNCHANGED <<inputs, simVars, optVars, courseVars, other, wt_args, rider, obj>>

\* course.py lines 14-17: Course(df)
CourseConstruct ==
    /\ call = "create_course_segments"
    /\ course = None
    /\ course' = [df |-> process_segment(course_df), has_course_segments |-> FALSE,
                  course_segments |-> <<>>]
    /\ UNCHANGED <<inputs, simVars, optVars, other, riderVars, rider, obj, course_df,
                   optimization_segments>>

\* course.py lines 67-70: course.equal_segmentation(n)
EqualSegmentation ==
    /\ course # None
    /\ ~course.has_course_segments
    /\ optimization_segments = None
    /\ \E n \in 1..MaxBins : course' = equal_segmentation(course, n)
    /\ UNCHANGED <<inputs, simVars, optVars, other, riderVars, rider, obj, course_df,
                   optimization_segments>>

\* optimization.py lines 297-333: create_course_segments_from_course(course)
CreateCourseSegments ==
    /\ course # None
    /\ optimization_segments = None
    /\ optimization_segments' = create_course_segments_from_course(course)
    /\ UNCHANGED <<inputs, simVars, optVars, other, riderVars, rider, obj, course_df, course>>

Next ==
    \/ Objective
    \/ UpdateHeight
    \/ UpdateWeight
    \/ UpdateBikeType
    \/ UpdatePosition
    \/ CalculateWTank
    \/ CourseConstruct
    \/ EqualSegmentation
    \/ CreateCourseSegments
    \/ SimSegment
    \/ SimReturn
    \/ OtherSegment
    \/ OtherReturn
    \/ MinimizeStart
    \/ SkipStart
    \/ MinimizeRaises
    \/ SelectConverged
    \/ GridBegin
    \/ GridStep
    \/ GridEnd
    \/ ClampAndSimulate
    \/ ReturnResult
    \/ ConservativeRetry

Spec == Init /\ [][Next]_vars

\* the position of the running call in its code
control == <<sim_pc, idx, opt_pc, start_idx, grid_i>>

\* a call of simulate_course_time or optimize_constant_power is under way
Running ==
    \/ call = "simulate" /\ sim_pc = "loop"
    \/ call = "optimize" /\ opt_pc \in {"multistart", "grid", "clamp", "check"}

\* the running call moves on in its code
Advance ==
    /\ Running
    /\ sim_pc' \in {"loop", "returned", "raised"}
    /\ idx' \in {idx, idx + 1}
    /\ opt_pc' \in {"idle", "multistart", "grid", "clamp", "check", "returned", "raised"}
    /\ start_idx' \in {start_idx, start_idx + 1}
    /\ grid_i' \in {grid_i, grid_i + 1}

\* the program is sequential and keeps executing: a call that is under way
\* does not stay at one position of its code for ever.  Every state with a
\* call under way has a step of Next and every such step changes control, so
\* this is the weak fairness of Next, read off the position of the call
LiveSpec == Init /\ [][Next]_vars /\ WF_control(Advance)

(***************************************************************************)
(* Properties.                                                             *)
(***************************************************************************)
Simulating == call = "simulate"
SimReturned == Simulating /\ sim_pc = "returned"
OptReturned == call = "optimize" /\ opt_pc = "returned"

\* the solver raises for this segment at this power
NoRoot(Power, segment) ==
    ~calculate_speed_and_plot(Power, StandardDensity, DrivetrainEfficiency,
                              segment.gradient, segment.wind,
                              segment.altitude).ok

\* a valid course: every gradient strictly inside (-0.3, 0.3), every
\* distance positive
ValidCourse ==
    \A i \in DOMAIN course_segments :
        /\ Abs(course_segments[i].gradient) < 300
        /\ course_segments[i].distance > 0

FlatCalmCourse ==
    \A i \in DOMAIN course_segments :
        course_segments[i].gradient = 0 /\ course_segments[i].wind = 0

EndToEnd ==
    /\ course_segments = example_segments
    /\ critical_power = 3000
    /\ w_prime = 25000000

\* C1: during simulate_course_time the W' balance never exceeds w_prime: the
\* running w_remaining, the w_remaining of every stored row and the returned
\* final w_remaining are all at most w_prime.
C1_WRemainingNeverExceedsWPrime ==
    Simulating =>
        /\ w_remaining <= w_prime
        /\ \A i \in DOMAIN results : results[i].w_remaining <= w_prime
        /\ sim_ret # None => sim_ret.w_remaining <= w_prime

\* a run below CP came back after at least two segments of recovery, with
\* the tank held at w_prime
C1_Witness ==
    /\ SimReturned
    /\ power < critical_power
    /\ Len(results) >= 2
    /\ sim_ret.w_remaining = w_prime

\* C2: simulate_course_time aborts at the first segment whose depletion
\* drives w_remaining below zero: whenever w_remaining is negative the call
\* has returned an infinite total time with the rows of exactly the segments
\* before that one (all with a non-negative balance), and nothing changes
\* afterwards, whatever segments remain.
C2_AbortsAtFirstDepletion ==
    /\ [](Simulating /\ w_remaining < 0 =>
            /\ sim_pc = "returned"
            /\ sim_ret.total_time = Infinity
            /\ sim_ret.df = results
            /\ Len(results) = idx - 2
            /\ \A i \in DOMAIN results : results[i].w_remaining >= 0)
    /\ [][Simulating /\ w_remaining < 0 => UNCHANGED vars]_vars

\* the call blew up after storing a row, with segments left untravelled
C2_Witness ==
    /\ SimReturned
    /\ sim_ret.total_time = Infinity
    /\ Len(results) >= 1
    /\ idx <= Len(course_segments)

\* C3: for a valid course and a critical power in [150, 400] W,
\* optimize_constant_power returns a finite total time.
C3_ReturnsFiniteTime ==
    OptReturned /\ ValidCourse /\ critical_power \in 1500..4000 =>
        opt_ret.optimal_time < Infinity

\* C4 as stated: for a valid course and a critical power in [150, 400] W the
\* returned power is strictly between 0.9 * CP and 2.0 * CP.
C4_PowerStrictlyWithin ==
    OptReturned /\ ValidCourse /\ critical_power \in 1500..4000 =>
        /\ 9 * critical_power < 10 * opt_ret.optimal_power
        /\ opt_ret.optimal_power < 2 * critical_power

\* C4 as amended: for a valid course and a critical power in [150, 400] W the
\* returned power lies in the closed interval [0.9 * CP, 2.0 * CP].
C4_PowerWithinClosed ==
    OptReturned /\ ValidCourse /\ critical_power \in 1500..4000 =>
        /\ 9 * critical_power <= 10 * opt_ret.optimal_power
        /\ opt_ret.optimal_power <= 2 * critical_power

\* the optimizer returned the upper end 2.0 * CP on a valid course
C4_Witness ==
    /\ OptReturned
    /\ ValidCourse
    /\ critical_power \in 1500..4000
    /\ Len(course_segments) >= 1
    /\ opt_ret.optimal_power = 2 * critical_power

\* C5: optimize_constant_power never raises to its caller when w_prime > 0,
\* whether the searches converge, fail or raise, or the solver raises inside
\* the objective.
C5_OptimizerNeverRaises ==
    call = "optimize" /\ w_prime > 0 => opt_pc # "raised"

\* the optimizer returned although the search raised and the solver raised
\* on a segment of the course
C5_Witness ==
    /\ OptReturned
    /\ path = "exception"
    /\ \E i \in DOMAIN course_segments :
           NoRoot(opt_ret.optimal_power, course_segments[i])

C7_InfiniteIffNegative ==
    Simulating =>
        /\ sim_pc # "raised"
        /\ sim_ret # None =>
              /\ sim_ret.total_time = Infinity <=> sim_ret.w_remaining < 0
              /\ sim_ret.total_time # Infinity =>
                    /\ sim_ret.total_time < Infinity
                    /\ 0 <= sim_ret.w_remaining
                    /\ sim_ret.w_remaining <= w_prime

\* a run above CP came back infeasible, with a negative balance, after a
\* feasible segment
C7_Witness ==
    /\ SimReturned
    /\ power > critical_power
    /\ sim_ret.total_time = Infinity
    /\ sim_ret.w_remaining < 0
    /\ Len(sim_ret.df) >= 1

\* C8: when the solver finds no root on a segment simulate_course_time does
\* not raise: the segment's row carries the speed max(5, min(20, power/200))
\* m/s, a positive speed, and time = distance / speed, and the loop goes on
\* to the next segment.
C8_FallbackSpeed ==
    Simulating =>
        /\ sim_pc # "raised"
        /\ sim_pc = "loop" => Len(results) = idx - 1
        /\ \A i \in DOMAIN results :
              NoRoot(power, course_segments[i]) =>
                  /\ results[i].speed =
                        (IF power <= 10000 THEN 5000
                         ELSE IF power >= 40000 THEN 20000
                         ELSE power \div 2)
                  /\ results[i].speed > 0
                  /\ results[i].time =
                        (results[i].length * 100000) \div results[i].speed

\* a run at 2 kW stored a row for a first segment without a root, with a
\* speed strictly between the two clamps, and went on to the next segment
C8_Witness ==
    /\ Simulating
    /\ Len(results) >= 1
    /\ idx >= 3
    /\ NoRoot(power, course_segments[1])
    /\ results[1].speed > 5000
    /\ results[1].speed < 20000

\* C9: at power = critical_power simulate_course_time returns w_remaining
\* equal to w_prime and a finite total time, on every course of zero
\* gradient and zero wind, and on the example course with CP = 300 W and
\* W' = 25000 J.
C9_AtCriticalPowerTankStaysFull ==
    SimReturned /\ power = critical_power /\ (FlatCalmCourse \/ EndToEnd) =>
        /\ sim_ret.w_remaining = w_prime
        /\ sim_ret.total_time < Infinity

\* the example course was ridden to its end at 300 W
C9_Witness ==
    /\ SimReturned
    /\ EndToEnd
    /\ power = critical_power
    /\ Len(sim_ret.df) = 5

\* C10 as stated: on the example course with CP = 300 W and W' = 25000 J the
\* simulation at 350 W returns a finite total time and a final w_remaining
\* below 25000 J.
C10_ExampleAt350Finite ==
    SimReturned /\ EndToEnd /\ power = 3500 =>
        /\ sim_ret.total_time < Infinity
        /\ sim_ret.w_remaining < 25000000

\* C10 as amended: on the example course with CP = 300 W and W' = 25000 J
\* the simulation at 350 W blows up in the fourth segment: it returns an
\* infinite total time, three rows and a negative final w_remaining (hence
\* one below 25000 J).
C10_ExampleAt350BlowsUp ==
    SimReturned /\ EndToEnd /\ power = 3500 =>
        /\ sim_ret.total_time = Infinity
        /\ Len(sim_ret.df) = 3
        /\ sim_ret.w_remaining < 0
        /\ sim_ret.w_remaining < 25000000

\* the example course was simulated at 350 W and the call returned
C10_Witness ==
    /\ SimReturned
    /\ EndToEnd
    /\ power = 3500
    /\ idx = 5

LongCourse ==
    /\ Len(course_segments) = 20
    /\ \A i \in DOMAIN course_segments : course_segments[i].distance = 1000

\* C11: a simulation at power = 3 * critical_power over a course of 20
\* segments of 1 km each with w_prime = 25000 J reports infeasible: it never
\* raises, never outlives the course with a finite time, and returns an
\* infinite total time.
C11_TripleCPOverLongCourseInfeasible ==
    Simulating /\ LongCourse /\ power = 3 * critical_power
               /\ w_prime = 25000000 =>
        /\ sim_pc \in {"loop", "returned"}
        /\ sim_pc = "loop" => idx <= 20
        /\ sim_pc = "returned" => sim_ret.total_time = Infinity

\* a long course ridden at 3 * CP with a 25 kJ tank outlasted its first
\* segment and was then reported infeasible
C11_Witness ==
    /\ SimReturned
    /\ LongCourse
    /\ power = 3 * critical_power
    /\ w_prime = 25000000
    /\ Len(sim_ret.df) >= 1
    /\ sim_ret.total_time = Infinity

\* row i of rows describes segment i of the course: its position, gradient,
\* length and wind, the time length / speed, and the balance that follows
\* from the balance of the row before it
RowOfSegment(rows, i) ==
    LET row == rows[i]
        segment == course_segments[i]
        before == IF i = 1 THEN w_prime ELSE rows[i - 1].w_remaining
    IN  /\ row.segment = i - 1
        /\ row.gradient = segment.gradient
        /\ row.length = segment.distance
        /\ row.wind = segment.wind
        /\ row.power = power
        /\ row.speed > 0
        /\ row.time = (segment.distance * 100000) \div row.speed
        /\ row.w_remaining
             = Balance(before, power, critical_power, row.time, w_prime)

C12_RowsFollowSegments ==
    Simulating =>
        /\ Len(results) <= Len(course_segments)
        /\ \A i \in DOMAIN results : RowOfSegment(results, i)
        /\ sim_pc = "loop" => Len(results) = idx - 1
        /\ sim_pc = "returned" =>
              /\ sim_ret.df = results
              /\ sim_ret.total_time < Infinity =>
                    Len(sim_ret.df) = Len(course_segments)

C12_AppendOnly ==
    Simulating =>
        /\ Len(results') \in {Len(results), Len(results) + 1}
        /\ \A i \in DOMAIN results : results'[i] = results[i]

\* C12: simulate_course_time stores one row per segment ridden, in traversal
\* order: row i carries segment i's gradient, length and wind, the time
\* length / speed and the W' balance after segment i; a feasible simulation
\* returns exactly one row per course segment; and a step of the loop only
\* appends a row, leaving every earlier row as it was.
C12_OneRowPerSegmentAppendOnly ==
    /\ []C12_RowsFollowSegments
    /\ [][C12_AppendOnly]_vars

\* a feasible simulation of the five-segment example course returned five
\* rows
C12_Witness ==
    /\ SimReturned
    /\ course_segments = example_segments
    /\ sim_ret.total_time < Infinity
    /\ Len(sim_ret.df) = 5
    /\ sim_ret.df[5].gradient = 40

\* C13 as stated: a segment whose |gradient| is above 0.4 is never simulated
\* as given: the simulation stores no row that carries such a gradient (the
\* call is rejected before the segment is ridden, or the gradient is clamped
\* first).
C13_ExtremeGradientNeverSimulated ==
    Simulating =>
        \A i \in DOMAIN results :
            Abs(course_segments[i].gradient) > 400 =>
                results[i].gradient # course_segments[i].gradient

\* the rise over run, in thousandths, of point i over the point before it
RiseOverRun(rows, i) ==
    ((rows[i].altitude - rows[i - 1].altitude) * 10000) \div rows[i].distance

\* every point of the course rises over the point before it at the grade of
\* the second point
UniformGrade(rows) ==
    \A i \in 2..Len(rows) :
        rows[i].distance > 0 /\ RiseOverRun(rows, i) = RiseOverRun(rows, 2)

\* the summed point distance of the aggregated segment j of the course
PointDistanceOf(c, j) ==
    SumOver([i \in DOMAIN c.df |-> c.df[i].distance],
            {i \in DOMAIN c.df :
                c.df[i].segment = c.course_segments[j].segment})

\* C14 as stated: for a Course built from points whose rise/run is g, every
\* segment emitted by create_course_segments_from_course has gradient g as a
\* decimal fraction (here to within a thousandth) and a distance equal to
\* the summed distance of the segment's points.
C14_EmitsRiseOverRun ==
    optimization_segments # None /\ optimization_segments.ok =>
        \A j \in DOMAIN optimization_segments.df :
            /\ optimization_segments.df[j].distance
                 = PointDistanceOf(course, j)
            /\ UniformGrade(course.df) =>
                 Abs(optimization_segments.df[j].gradient
                       - RiseOverRun(course.df, 2)) <= 1

\* the call that ended at position pc with the tuple ret ended as the call
\* alone did
SameOutcome(alone, pc, ret) == alone.pc = pc /\ alone.ret = ret

C15_OutcomesAsAlone ==
    call = "simulate_pair" =>
        /\ sim_pc # "loop" =>
              SameOutcome(simulate_course_time(power, critical_power, w_prime,
                                               course_segments),
                          sim_pc, sim_ret)
        /\ other.pc # "loop" =>
              SameOutcome(simulate_course_time(other.power, critical_power,
                                               w_prime, course_segments),
                          other.pc, other.ret)

C15_OptimizerUntouched ==
    call \in {"simulate", "simulate_pair"} =>
        /\ critical_power' = critical_power
        /\ w_prime' = w_prime
        /\ course_segments' = course_segments

\* C15: simulations are independent: a step of simulate_course_time leaves
\* the optimizer's critical_power and w_prime and the course segments as
\* they were, and each of two simulations at different powers on the same
\* optimizer and course, interleaved segment by segment in any order, ends
\* with the outcome it has when it runs alone.
C15_SimulationsIndependent ==
    /\ []C15_OutcomesAsAlone
    /\ [][C15_OptimizerUntouched]_vars

\* two interleaved simulations of the example course both ended, one
\* feasible with all five rows, the other blown up
C15_Witness ==
    /\ call = "simulate_pair"
    /\ course_segments = example_segments
    /\ sim_pc = "returned"
    /\ other.pc = "returned"
    /\ sim_ret.total_time < Infinity
    /\ Len(sim_ret.df) = 5
    /\ other.ret.total_time = Infinity

WTankCalled == call = "calculate_w_tank" /\ Len(wt_out) >= 1

\* the calculator was built without best efforts, for the rider type
\* rider_type and a critical power above 0
FromProfile(rider_type) ==
    /\ call = "calculate_w_tank"
    /\ DOMAIN wt_args.best_efforts = {}
    /\ wt_args.rider_type = rider_type
    /\ Truthy(wt_args.critical_power)

\* C16 as stated: calculate_w_tank on a best-effort profile with fewer than
\* 2 distinct durations fails with the program's insufficient-data error
\* (the ValueError of line 288) and stores no rider model: no fitted
\* parameters, no w_tank, and no critical power that was not supplied.
C16_TooFewDurationsIsInsufficientData ==
    WTankCalled /\ Cardinality(DOMAIN wt_args.best_efforts) = 1 =>
        /\ ~wt_out[1].ok
        /\ wt_out[1].error = "ValueError"
        /\ wt.popt = None
        /\ wt.w_tank = None
        /\ wt.critical_power = wt_args.critical_power

\* C17: with no best efforts supplied, the first calculate_w_tank of a
\* calculator for time_trialist / sprinter / all_rounder and a critical
\* power CP > 0 returns exactly 10000 + 0.5 * CP / 25000 + 0.7 * CP /
\* 15000 + 0.6 * CP joules, and the critical power stays the supplied one;
\* for a rider type that is none of the three (or none at all) it raises
\* ValueError.
C17_ArchetypeEstimate ==
    WTankCalled =>
        /\ FromProfile("time_trialist") =>
              /\ wt_out[1].ok
              /\ wt_out[1].value * 10
                   = 100000000 + 5 * 100 * wt_args.critical_power.value
        /\ FromProfile("sprinter") =>
              /\ wt_out[1].ok
              /\ wt_out[1].value * 10
                   = 250000000 + 7 * 100 * wt_args.critical_power.value
        /\ FromProfile("all_rounder") =>
              /\ wt_out[1].ok
              /\ wt_out[1].value * 10
                   = 150000000 + 6 * 100 * wt_args.critical_power.value
        /\ (\E t \in Archetypes : FromProfile(t)) =>
              wt.critical_power = wt_args.critical_power
        /\ FromProfile("climber") \/ FromProfile("None") =>
              ~wt_out[1].ok /\ wt_out[1].error = "ValueError"

\* a sprinter with CP = 300 W and no best efforts got 25210 J, and a rider
\* of an unknown type was refused
C17_Witness ==
    /\ WTankCalled
    /\ \/ /\ FromProfile("sprinter")
          /\ wt_args.critical_power = Some(3000)
          /\ wt_out[1].value = 25210000
          /\ wt.popt # None
       \/ /\ FromProfile("climber")
          /\ ~wt_out[1].ok

\* the best efforts were generated for an archetype: none were supplied and
\* the call went through
Synthetic ==
    /\ WTankCalled
    /\ \E t \in Archetypes : FromProfile(t)
    /\ wt_out[1].ok

\* C18 as stated: synthetic best efforts contain exactly the durations
\* {60, 300, 600, 1200, 1800} s, each with the power CP times the
\* archetype's multiplier for that duration.
C18_FiveStandardDurations ==
    Synthetic =>
        /\ DOMAIN wt.best_efforts = {60, 300, 600, 1200, 1800}
        /\ \A t \in DOMAIN wt.best_efforts :
              wt.best_efforts[t] * 100
                = wt_args.critical_power.value * multipliers(wt.rider_type)[t]

\* C18 as amended: synthetic best efforts contain exactly the six durations
\* {60, 300, 600, 1200, 1800, 3600} s, each with the power CP times the
\* archetype's multiplier for that duration; the one-hour effort is CP
\* itself and the one-minute effort is 1.4, 1.8 or 1.6 times CP.
C18_SixDurations ==
    Synthetic =>
        /\ DOMAIN wt.best_efforts = {60, 300, 600, 1200, 1800, 3600}
        /\ \A t \in DOMAIN wt.best_efforts :
              wt.best_efforts[t] * 100
                = wt_args.critical_power.value * multipliers(wt.rider_type)[t]
        /\ wt.best_efforts[3600] = wt_args.critical_power.value
        /\ wt.best_efforts[60] * 10
             = wt_args.critical_power.value
                 * (IF wt.rider_type = "time_trialist" THEN 14
                    ELSE IF wt.rider_type = "sprinter" THEN 18 ELSE 16)

\* an all-rounder with CP = 400 W got six synthetic efforts, 640 W for one
\* minute and 400 W for the hour
C18_Witness ==
    /\ Synthetic
    /\ wt.rider_type = "all_rounder"
    /\ wt_args.critical_power = Some(4000)
    /\ Cardinality(DOMAIN wt.best_efforts) = 6
    /\ wt.best_efforts[60] = 6400
    /\ wt.best_efforts[3600] = 4000

\* the speed simulate_course_time takes for a segment from the outcome
\* speed_calc of the solver
SpeedFrom(speed_calc) == Fallback(speed_calc, power).speed

\* drivetrain efficiencies a caller may pass (hundredths)
Efficiencies == {90, 95, 100}

\* C19 as stated: the speed of a segment is the root for the power scaled
\* by the drivetrain efficiency (0.95 by default), and a call of the solver
\* that differs only in drivetrain_efficiency returns a different speed.
C19_PowerScaledByEfficiency ==
    Simulating =>
        \A i \in DOMAIN results :
            ~NoRoot(power, course_segments[i]) =>
                /\ results[i].speed =
                      SpeedFrom(calculate_speed_and_plot(
                          (power * DrivetrainEfficiency) \div 100,
                          StandardDensity, DrivetrainEfficiency,
                          course_segments[i].gradient,
                          course_segments[i].wind,
                          course_segments[i].altitude))
                /\ \A e \in Efficiencies \ {DrivetrainEfficiency} :
                      results[i].speed #
                        SpeedFrom(calculate_speed_and_plot(
                            power, StandardDensity, e,
                            course_segments[i].gradient,
                            course_segments[i].wind,
                            course_segments[i].altitude))

\* C20 as stated: the speed of a segment that supplies an altitude is the
\* root for the air density that calculate_air_density gives for that
\* altitude; the standard density 1.225 is used only for a segment without
\* one.
C20_DensityFromAltitude ==
    Simulating =>
        \A i \in DOMAIN results :
            /\ course_segments[i].altitude # 0
            /\ ~NoRoot(power, course_segments[i])
            => results[i].speed =
                 SpeedFrom(calculate_speed_and_plot(
                     power,
                     calculate_air_density(course_segments[i].altitude),
                     DrivetrainEfficiency,
                     course_segments[i].gradient,
                     course_segments[i].wind,
                     course_segments[i].altitude))

(***************************************************************************)
(* C21: after construction and after any sequence of update_height,        *)
(* update_weight, update_bike_type and update_position calls the rider's   *)
(* CdA is round(base * height / 1.75, 3), base being the table entry of    *)
(* (bike_type, position) or 0.35 without one.                              *)
(***************************************************************************)
TableBase(r) ==
    CASE r.bike_type = "Road" /\ r.position = "Hoods" -> 350
      [] r.bike_type = "Road" /\ r.position = "Drops" -> 330
      [] r.bike_type = "Road" /\ r.position = "Aero" -> 300
      [] r.bike_type = "TT" /\ r.position = "Aero" -> 220
      [] r.bike_type = "Gravel" /\ r.position = "Hoods" -> 380
      [] r.bike_type = "Gravel" /\ r.position = "Drops" -> 360
      [] r.bike_type = "MTB" /\ r.position = "Flat" -> 400
      [] OTHER -> 350

\* |1000 * CdA - base * height / 1.75| <= 1/2, cleared of fractions
NearestThousandth(r) ==
    LET exact == 2 * TableBase(r) * r.height
        twice == 2 * 175 * r.CdA
    IN  /\ twice - 175 <= exact
        /\ exact <= twice + 175

C22_GridIffNoStartConverged ==
    (call = "optimize" /\ opt_pc = "clamp") =>
        /\ path = "grid" <=> ~Converged
        /\ Converged => path = "converged" /\ optimal_power = best_result.x

(***************************************************************************)
(* C23: the grid fallback scores 20 evenly spaced powers over              *)
(* [lower_bound, upper_bound] and selects the best-scoring one of the      *)
(* feasible samples: an infeasible sample is never selected while a        *)
(* feasible sample exists.                                                 *)
(***************************************************************************)
\* the 20 powers of np.linspace(lower_bound, upper_bound, 20)
GridPowers == {test_powers(critical_power, i) : i \in 0..(GridSamples - 1)}

\* the simulation at p returns a finite total time
FeasibleAt(p) ==
    simulate_course_time(p, critical_power, w_prime, course_segments)
        .ret.total_time < Infinity

ScoreAt(p) == objective(p, critical_power, w_prime, course_segments)

GridEnded == call = "optimize" /\ opt_pc = "clamp" /\ path = "grid"

\* the selection sel of the grid, given the feasible ones F of its samples
BestFeasible(sel, F) ==
    F # {} => /\ sel \in F
              /\ \A p \in F : ScoreAt(sel) <= ScoreAt(p)

C23_GridSelectsBestFeasible ==
    GridEnded =>
        /\ optimal_power \in GridPowers
        /\ BestFeasible(optimal_power, {p \in GridPowers : FeasibleAt(p)})

\* a grid over a valid course with feasible and infeasible samples, the
\* selection not its first sample
C23_Witness ==
    /\ GridEnded
    /\ ValidCourse
    /\ \E p \in GridPowers : FeasibleAt(p)
    /\ \E p \in GridPowers : ~FeasibleAt(p)
    /\ optimal_power # lower_bound(critical_power)

(***************************************************************************)
(* C24: when the local searches fail and the grid search yields no         *)
(* feasible sample, optimize_constant_power returns the fixed conservative *)
(* power, 1.05 * CP or 1.1 * CP (stated for the valid courses).            *)
(***************************************************************************)
\* the grid chose the power and none of its samples was feasible
GridFoundNothing ==
    /\ call = "optimize"
    /\ path = "grid"
    /\ \A p \in GridPowers : ~FeasibleAt(p)

C24_NoFeasibleSampleGivesConservativePower ==
    (OptReturned /\ GridFoundNothing /\ ValidCourse) =>
        opt_ret.optimal_power \in {(critical_power * 105) \div 100,
                                   (critical_power * 11) \div 10}

(***************************************************************************)
(* C25: simulate_course_time accumulates time and energy consistently: in  *)
(* every outcome the returned total energy is the sum of power * time over *)
(* exactly the rows of the result list, each row's total_energy_used being *)
(* the running prefix sum; in a feasible outcome the total time is the sum *)
(* of the rows' times and the total energy is power * total time.          *)
(***************************************************************************)
RowEnergies(rows) == [j \in DOMAIN rows |-> rows[j].power * rows[j].time]

RowTimes(rows) == [j \in DOMAIN rows |-> rows[j].time]

PrefixSums(rows) ==
    \A i \in DOMAIN rows :
        /\ rows[i].power = power
        /\ rows[i].total_energy_used = SumTo(RowEnergies(rows), i)

C25_TimeAndEnergyConsistent ==
    SimReturned =>
        /\ PrefixSums(sim_ret.df)
        /\ sim_ret.total_energy_used
               = SumTo(RowEnergies(sim_ret.df), Len(sim_ret.df))
        /\ sim_ret.total_time < Infinity =>
               /\ sim_ret.total_time
                      = SumTo(RowTimes(sim_ret.df), Len(sim_ret.df))
               /\ sim_ret.total_energy_used = power * sim_ret.total_time

\* W' is depleted in a later segment: rows and energy of the segments before
C25_Witness ==
    /\ SimReturned
    /\ sim_ret.total_time = Infinity
    /\ Len(sim_ret.df) >= 1
    /\ Len(sim_ret.df) < Len(course_segments)
    /\ sim_ret.total_energy_used > 0

(***************************************************************************)
(* C26: every call terminates: simulate_course_time returns after at most  *)
(* one pass over the segments, and optimize_constant_power eventually      *)
(* returns after at most 3 local searches, at most 20 grid evaluations and *)
(* at most 2 final simulations.                                            *)
(***************************************************************************)
\* the counters of the loops stay within their ranges
WorkBounded ==
    /\ call = "simulate" => idx <= Len(course_segments) + 1
    /\ call = "optimize" =>
           /\ start_idx <= Len(start_powers(critical_power)) + 1
           /\ grid_i <= GridSamples

\* a step of a running call moves forward: no counter goes back, the position
\* changes, and the first final simulation is followed by at most one more
OnePass ==
    Running =>
        /\ control' # control
        /\ idx' >= idx /\ start_idx' >= start_idx /\ grid_i' >= grid_i
        /\ opt_pc = "multistart" => opt_pc' \in {"multistart", "grid", "clamp"}
        /\ opt_pc = "grid" => opt_pc' \in {"grid", "clamp"}
        /\ opt_pc = "clamp" => opt_pc' \in {"check", "raised"}
        /\ opt_pc = "check" => opt_pc' \in {"returned", "raised"}

C26_EveryCallTerminates ==
    /\ []WorkBounded
    /\ [][OnePass]_vars
    /\ call = "simulate" => <>(sim_pc = "returned")
    /\ call = "optimize" => <>(opt_pc = "returned")

\* the longest run: three local searches, the whole grid, both simulations
C26_Witness ==
    /\ OptReturned
    /\ start_idx = 4
    /\ path = "grid"
    /\ grid_i = GridSamples
    /\ retried

(***************************************************************************)
(* C27: at a constant power <= critical_power the W' balance never moves:  *)
(* w_remaining equals w_prime after every segment of every course, the     *)
(* outcome is feasible and the achieved W' utilization is exactly 0.       *)
(***************************************************************************)
AtOrBelowCP == Simulating /\ power <= critical_power

C27_TankStaysFullAtOrBelowCP ==
    AtOrBelowCP =>
        /\ w_remaining = w_prime
        /\ \A i \in DOMAIN results : results[i].w_remaining = w_prime
        /\ sim_pc = "returned" =>
               /\ sim_ret.total_time < Infinity
               /\ Len(sim_ret.df) = Len(course_segments)
               /\ w_prime - sim_ret.w_remaining = 0

\* a ride below CP over at least two segments, not all of them flat, has
\* returned
C27_Witness ==
    /\ AtOrBelowCP
    /\ power < critical_power
    /\ sim_pc = "returned"
    /\ Len(course_segments) >= 2
    /\ \E i \in DOMAIN course_segments : course_segments[i].gradient # 0

(***************************************************************************)
(* C28: the objective ranks feasibility first: for one course and rider    *)
(* the objective value of every power whose simulation is feasible (finite *)
(* total time) is strictly lower than that of every power whose simulation *)
(* is infeasible.                                                          *)
(***************************************************************************)
Scored == call = "objective" /\ obj.scores # None

C30_CalculateWTankIdempotent ==
    (call = "calculate_w_tank" /\ wt_args.rider_type \in Archetypes
        /\ DOMAIN wt_args.best_efforts = {} /\ Truthy(wt_args.critical_power)) =>
        /\ Len(wt_out) >= 1 => DOMAIN wt.best_efforts = {}
        /\ Len(wt_out) >= 2 => wt_out[2] = wt_out[1]

====
